---- MODULE Spec2Model ----
(***************************************************************************)
(* Model of flowtorch's higher-order DMD wrapper                           *)
(* (src/flowtorch/analysis/hodmd.py) and of the VTK data loader's          *)
(* write-time discovery (src/flowtorch/data/vtk_dataloader.py).            *)
(*                                                                         *)
(* Matrices are sequences of rows, every row a sequence of integers.       *)
(* Optional values (Python's None) are sequences of length 0 or 1.         *)
(***************************************************************************)
EXTENDS Integers, Sequences, FiniteSets, TLC

VARIABLES
    pc,        \* position of the running HODMD.__init__ call
    args,      \* arguments of the running / last HODMD.__init__ call
    dm_org,    \* self._dm_org
    rows_org,  \* self._rows_org
    cols_org,  \* self._cols_org
    delay,     \* self._delay
    svd_dr,    \* self._svd_dr
    embedded,  \* the evaluated first argument of super().__init__
    base,      \* the state of the DMD base object
    err,       \* the exception that left __init__, if any
    trace,     \* the computations __init__ has run so far, in order
    ret,       \* the value returned by the last accessor
    first,     \* the finished object a second construction reuses the SVD of
    vtk_pc,    \* position of the VTKDataloader
    prefix,    \* self._prefix
    suffix,    \* self._suffix
    files,     \* the file names found in self._path
    write_times_cache, \* self._write_times
    vtk_ret    \* the outcome of the last write_times access

hvars == <<pc, args, dm_org, rows_org, cols_org, delay, svd_dr, embedded,
           base, err, trace, ret, first>>
vvars == <<vtk_pc, prefix, suffix, files, write_times_cache, vtk_ret>>
vars == <<hvars, vvars>>

(***************************************************************************)
(* Bounds of the model.                                                    *)
(***************************************************************************)
MaxRows == 2
MaxCols == 6
MaxFiles == 2

None == <<>>
Some(x) == <<x>>
IsNone(o) == o = <<>>
Get(o) == o[1]

Min(a, b) == IF a < b THEN a ELSE b
Max(a, b) == IF a > b THEN a ELSE b

(***************************************************************************)
(* Python sequence slicing s[start:stop] with integer bounds: a negative   *)
(* bound counts from the end, both are clamped to 0..len.                  *)
(***************************************************************************)
PyBound(n, len) == IF n < 0 THEN Max(n + len, 0) ELSE Min(n, len)

PySlice(s, start, stop) ==
    LET lo == PyBound(start, Len(s))
        hi == PyBound(stop, Len(s))
    IN  [i \in 1..Max(hi - lo, 0) |-> s[lo + i]]

(***************************************************************************)
(* Dense matrix algebra as torch performs it on 2D tensors.                *)
(***************************************************************************)
NRows(M) == Len(M)
NCols(M) == IF Len(M) = 0 THEN 0 ELSE Len(M[1])

RECURSIVE SumTo(_, _)
SumTo(f, n) == IF n = 0 THEN 0 ELSE f[n] + SumTo(f, n - 1)

Transpose(M) == [j \in 1..NCols(M) |-> [k \in 1..NRows(M) |-> M[k][j]]]

\* A @ B
MatMul(A, B) ==
    [k \in 1..NRows(A) |->
        [j \in 1..NCols(B) |->
            SumTo([l \in 1..NCols(A) |-> A[k][l] * B[l][j]], NCols(A))]]

\* A - B for equal shapes
MatSub(A, B) ==
    [k \in 1..NRows(A) |-> [j \in 1..NCols(A) |-> A[k][j] - B[k][j]]]

\* M[:, start:stop]
ColSlice(M, start, stop) == [k \in 1..NRows(M) |-> PySlice(M[k], start, stop)]

\* M[:stop]
RowsUpTo(M, stop) == PySlice(M, 0, stop)

\* torch.cat(blocks) along dimension 0
RECURSIVE Cat(_)
Cat(blocks) == IF blocks = <<>> THEN <<>> ELSE Head(blocks) \o Cat(Tail(blocks))


(***************************************************************************)
(* Python's decimal formatting of an integer, str(n) and format(n, "d"),   *)
(* as a sequence of characters, and the inverse reading of such text.      *)
(***************************************************************************)
DigitChars == <<"0", "1", "2", "3", "4", "5", "6", "7", "8", "9">>

RECURSIVE Digits(_)
Digits(n) ==
    IF n < 10 THEN <<DigitChars[n + 1]>>
    ELSE Digits(n \div 10) \o <<DigitChars[(n % 10) + 1]>>

IntToStr(n) == IF n < 0 THEN <<"-">> \o Digits(-n) ELSE Digits(n)

DigitValue(c) == CHOOSE v \in 0..9 : DigitChars[v + 1] = c

RECURSIVE DigitsValue(_)
DigitsValue(s) ==
    IF s = <<>> THEN 0
    ELSE 10 * DigitsValue(SubSeq(s, 1, Len(s) - 1)) + DigitValue(s[Len(s)])

StrToInt(s) == IF s[1] = "-" THEN -DigitsValue(Tail(s)) ELSE DigitsValue(s)

(***************************************************************************)
(* HODMD._validate_inputs: the exception raised, or None.                  *)
(***************************************************************************)
DelayMsg == "The 'delay' parameter must be a positive integer. Got "
SnapshotsMsg1 == "The number of snapshots ("
SnapshotsMsg2 == ") must be larger than the number of time delays ("
SnapshotsMsg3 == ")"

ValueError(msg) == [type |-> "ValueError", msg |-> msg]

\* faulty variant: the delay check accepts zero
validate_inputs_zero_delay(d, c) ==
    IF d < 0
    THEN Some(ValueError(<<DelayMsg>> \o IntToStr(d)))
    ELSE IF c - d < 1
         THEN Some(ValueError(<<SnapshotsMsg1>> \o IntToStr(c)
                              \o <<SnapshotsMsg2>> \o IntToStr(d)
                              \o <<SnapshotsMsg3>>))
         ELSE None

\* faulty variant: the snapshot check accepts delay = cols_org
validate_inputs_no_column_left(d, c) ==
    IF d < 1
    THEN Some(ValueError(<<DelayMsg>> \o IntToStr(d)))
    ELSE IF c - d < 0
         THEN Some(ValueError(<<SnapshotsMsg1>> \o IntToStr(c)
                              \o <<SnapshotsMsg2>> \o IntToStr(d)
                              \o <<SnapshotsMsg3>>))
         ELSE None

validate_inputs(d, c) ==
    IF d < 1
    THEN Some(ValueError(<<DelayMsg>> \o IntToStr(d)))
    ELSE IF c - d < 1
         THEN Some(ValueError(<<SnapshotsMsg1>> \o IntToStr(c)
                              \o <<SnapshotsMsg2>> \o IntToStr(d)
                              \o <<SnapshotsMsg3>>))
         ELSE None

(***************************************************************************)
(* HODMD._create_time_delays: the blocks data_matrix[:, i:cols-(d-i-1)]    *)
(* for i in range(d), concatenated along the rows.                         *)
(***************************************************************************)
\* faulty variant: every window ends one column early
create_time_delays_short(data_matrix, d) ==
    LET cols == NCols(data_matrix)
    IN  Cat([b \in 1..Max(d, 0) |->
                ColSlice(data_matrix, b - 1, cols - (d - (b - 1)))])

create_time_delays(data_matrix, d) ==
    LET cols == NCols(data_matrix)
    IN  Cat([b \in 1..Max(d, 0) |->
                ColSlice(data_matrix, b - 1, cols - (d - (b - 1) - 1))])

\* int(cols_org / 3)
\* faulty variant: one half instead of one third of the snapshots
DefaultDelayHalf(cols) == cols \div 2

DefaultDelay(cols) == cols \div 3

\* faulty variant: the reduction is skipped and the leading rows are taken instead
ReducedNoProjection(U, data_matrix) == RowsUpTo(data_matrix, NCols(U))

\* self._svd_dr.U.T @ self._dm_org
Reduced(U, data_matrix) == MatMul(Transpose(U), data_matrix)

(***************************************************************************)
(* The inputs of the model.                                                *)
(***************************************************************************)
DataScales == {1, -1}

\* a rows x cols data matrix whose entries are pairwise different
DataMatrix(rows, cols, scale) ==
    [k \in 1..rows |-> [j \in 1..cols |-> scale * ((k - 1) * cols + j)]]

DataMatrices ==
    {DataMatrix(r, c, s) : r \in 1..MaxRows, c \in 1..MaxCols, s \in DataScales}

\* explicit delays: non-positive, valid, equal to and beyond the snapshot
\* count; two of them have more than one digit
ExplicitDelays == (-1..(MaxCols + 1)) \cup {-10, 12}

DelayArgs == {None} \cup {Some(d) : d \in ExplicitDelays}

RankArgs(rows, cols) == {None} \cup {Some(r) : r \in 1..Min(rows, cols)}

(***************************************************************************)
(* The SVD class (flowtorch.analysis.svd) is an external collaborator:     *)
(* SVD(matrix, rank) yields a basis U with `rank` orthonormal columns.     *)
(* The bases of the model are the signed partial permutation matrices.     *)
(***************************************************************************)
Injections(r, rows) ==
    {f \in [1..r -> 1..rows] : \A a, b \in 1..r : f[a] = f[b] => a = b}

Bases(rows, r) ==
    {[k \in 1..rows |-> [l \in 1..r |-> IF f[l] = k THEN sgn ELSE 0]] :
        f \in Injections(r, rows), sgn \in {1, -1}}

Factorization(U) == [U |-> U, rank |-> NCols(U)]

SVD(data_matrix, rank) ==
    LET rows == NRows(data_matrix)
        cols == NCols(data_matrix)
        ranks == IF IsNone(rank) THEN 1..Min(rows, cols)
                 ELSE {Min(Get(rank), Min(rows, cols))}
    IN  {Factorization(U) : U \in UNION {Bases(rows, r) : r \in ranks}}

SvdArgs(rows, cols) ==
    {None} \cup
    {Some(Factorization(U)) :
        U \in UNION {Bases(rows, r) : r \in 1..Min(rows, cols)}}

(***************************************************************************)
(* The DMD base class (flowtorch.analysis.dmd) is an external              *)
(* collaborator: DMD(data_matrix, dt, **options) fits a linear model to    *)
(* the matrix it is given and keeps modes, dynamics and errors in the      *)
(* row space of that matrix.  Its numerical results are opaque here; a     *)
(* fit is one of a family of matrices of the right shapes.                 *)
(***************************************************************************)
FitSeeds == {0, 1}

DMD(data_matrix) ==
    LET R == NRows(data_matrix)
        C == NCols(data_matrix)
        nmax == Max(Min(R, C - 1), 1)
        Fit(nm, q) ==
            [dm |-> data_matrix,
             modes |-> [i \in 1..R |-> [m \in 1..nm |-> q + i + (m - 1) * R]],
             dynamics |-> [m \in 1..nm |-> [j \in 1..C |-> m * j - q]],
             projection_error |->
                 [i \in 1..R |-> [j \in 1..(C - 1) |-> 2 * i - j + q]],
             tlsq_error |->
                 << [i \in 1..R |-> [j \in 1..(C - 1) |-> i * j + q]],
                    [i \in 1..R |-> [j \in 1..(C - 1) |-> i - 3 * j - q]] >>]
    IN  {Fit(IF q = 0 THEN (nmax + 1) \div 2 ELSE nmax, q) : q \in FitSeeds}

(***************************************************************************)
(* The accessors of a constructed HODMD.                                   *)
(***************************************************************************)
U_dr == Get(svd_dr).U
rank == Get(svd_dr).rank

\* DMD.modes of the base class: the raw modes
BaseModes == Get(base).modes

\* faulty variant: the last r rows are kept instead of the first
ModesLastBlock == MatMul(U_dr, PySlice(BaseModes, -rank, NRows(BaseModes)))

\* HODMD.modes
Modes == MatMul(U_dr, RowsUpTo(BaseModes, rank))

\* DMD.reconstruction of the base class, computed from the overridden modes
Reconstruction == MatMul(Modes, Get(base).dynamics)

\* faulty variant: the trailing instead of the leading snapshots are subtracted
ReconstructionErrorTrailing ==
    LET n == NCols(Reconstruction)
    IN  MatSub(Reconstruction, ColSlice(dm_org, cols_org - n, cols_org))

\* HODMD.reconstruction_error
ReconstructionError ==
    MatSub(Reconstruction, ColSlice(dm_org, 0, NCols(Reconstruction)))

\* HODMD.projection_error
ProjectionError == MatMul(U_dr, RowsUpTo(Get(base).projection_error, rank))

\* HODMD.tlsq_error
TlsqError ==
    LET dx == Get(base).tlsq_error[1]
        dy == Get(base).tlsq_error[2]
    IN  <<MatMul(U_dr, RowsUpTo(dx, rank)), MatMul(U_dr, RowsUpTo(dy, rank))>>

(***************************************************************************)
(* HODMD.__init__, step by step.                                           *)
(***************************************************************************)
CallArgs ==
    {[data_matrix |-> D, delay |-> d, rank_dr |-> r, svd_dr |-> s] :
        D \in DataMatrices, d \in DelayArgs,
        r \in RankArgs(MaxRows, MaxCols), s \in SvdArgs(MaxRows, MaxRows)}

\* the calls whose rank and factorization fit the data matrix
WellFormed(a) ==
    LET rows == NRows(a.data_matrix)
        cols == NCols(a.data_matrix)
    IN  /\ a.rank_dr \in RankArgs(rows, cols)
        /\ a.svd_dr \in SvdArgs(rows, cols)
        /\ ~IsNone(a.svd_dr) => a.rank_dr \in {None, Some(Min(rows, cols))}

\* faulty variant: the fields are stored and validation is left out
StoreFieldsUnvalidated(a) ==
    /\ args' = Some(a)
    /\ dm_org' = a.data_matrix
    /\ rows_org' = NRows(a.data_matrix)
    /\ cols_org' = NCols(a.data_matrix)
    /\ svd_dr' = a.svd_dr
    /\ delay' = IF IsNone(a.delay) THEN DefaultDelay(NCols(a.data_matrix))
                ELSE Get(a.delay)
    /\ pc' = "reduce"
    /\ embedded' = None
    /\ base' = None
    /\ err' = None
    /\ trace' = <<>>
    /\ ret' = None

\* lines 56-61: the fields are stored and the default delay is set
StoreFields(a) ==
    /\ args' = Some(a)
    /\ dm_org' = a.data_matrix
    /\ rows_org' = NRows(a.data_matrix)
    /\ cols_org' = NCols(a.data_matrix)
    /\ svd_dr' = a.svd_dr
    /\ delay' = IF IsNone(a.delay) THEN DefaultDelay(NCols(a.data_matrix))
                ELSE Get(a.delay)
    /\ pc' = "validate"
    /\ embedded' = None
    /\ base' = None
    /\ err' = None
    /\ trace' = <<>>
    /\ ret' = None

\* HODMD(data_matrix, dt, delay, rank_dr, svd_dr) is called
Construct ==
    /\ pc = "idle"
    /\ \E a \in CallArgs : WellFormed(a) /\ StoreFields(a)
    /\ UNCHANGED <<first, vvars>>

\* line 62: self._validate_inputs()
Validate ==
    /\ pc = "validate"
    /\ trace' = Append(trace, "validate")
    /\ err' = validate_inputs(delay, cols_org)
    /\ pc' = IF IsNone(err') THEN "reduce" ELSE "failed"
    /\ UNCHANGED <<args, dm_org, rows_org, cols_org, delay, svd_dr, embedded,
                   base, ret, first, vvars>>

\* faulty variant: the factorization is computed even when one is supplied
ReduceAlways ==
    /\ pc = "reduce"
    /\ \E f \in SVD(dm_org, Get(args).rank_dr) : svd_dr' = Some(f)
    /\ trace' = Append(trace, "svd")
    /\ pc' = "embed"
    /\ UNCHANGED <<args, dm_org, rows_org, cols_org, delay, embedded, base,
                   err, ret, first, vvars>>

\* lines 63-64: the factorization is computed unless one was supplied
Reduce ==
    /\ pc = "reduce"
    /\ IF IsNone(svd_dr)
       THEN /\ \E f \in SVD(dm_org, Get(args).rank_dr) : svd_dr' = Some(f)
            /\ trace' = Append(trace, "svd")
       ELSE UNCHANGED <<svd_dr, trace>>
    /\ pc' = "embed"
    /\ UNCHANGED <<args, dm_org, rows_org, cols_org, delay, embedded, base,
                   err, ret, first, vvars>>

\* line 66: the argument of super().__init__ is evaluated
Embed ==
    /\ pc = "embed"
    /\ embedded' = Some(create_time_delays(Reduced(U_dr, dm_org), delay))
    /\ trace' = Append(trace, "embed")
    /\ pc' = "delegate"
    /\ UNCHANGED <<args, dm_org, rows_org, cols_org, delay, svd_dr, base,
                   err, ret, first, vvars>>

\* lines 65-68: super().__init__(embedded, dt, **dmd_options); the base class
\* is deterministic, the same matrix gets the same fit
Delegate ==
    /\ pc = "delegate"
    /\ \E fit \in DMD(Get(embedded)) :
          /\ (~IsNone(first) /\ Get(first).base.dm = Get(embedded))
                 => fit = Get(first).base
          /\ base' = Some(fit)
    /\ trace' = Append(trace, "dmd")
    /\ pc' = "done"
    /\ UNCHANGED <<args, dm_org, rows_org, cols_org, delay, svd_dr, embedded,
                   err, ret, first, vvars>>

Return(name, value) ==
    /\ pc = "done"
    /\ ret' = Some(<<name, value>>)
    /\ UNCHANGED <<pc, args, dm_org, rows_org, cols_org, delay, svd_dr,
                   embedded, base, err, trace, first, vvars>>

GetSvdDr == Return("svd_dr", Get(svd_dr))
GetDelay == Return("delay", delay)
GetModes == Return("modes", Modes)
GetReconstructionError == Return("reconstruction_error", ReconstructionError)
GetProjectionError == Return("projection_error", ProjectionError)
GetTlsqError == Return("tlsq_error", TlsqError)

\* the finished object, as the caller of a second construction sees it
Snapshot ==
    [args |-> Get(args), svd_dr |-> Get(svd_dr), delay |-> delay,
     base |-> Get(base), modes |-> Modes,
     reconstruction_error |-> ReconstructionError]

\* HODMD(data_matrix, dt, delay, rank_dr, svd_dr=dmd.svd_dr): a second object
\* is constructed from the inputs of the first and the first's factorization
ConstructWithSvd ==
    /\ pc = "done"
    /\ IsNone(first)
    /\ IsNone(Get(args).svd_dr)
    /\ first' = Some(Snapshot)
    /\ \E r \in {Get(args).rank_dr, Some(Min(rows_org, cols_org))} :
          StoreFields([Get(args) EXCEPT !.rank_dr = r, !.svd_dr = svd_dr])
    /\ UNCHANGED vvars

(***************************************************************************)
(* VTKDataloader: the constructor and the write_times accessor.            *)
(***************************************************************************)
Path == <<"d">>
Prefixes == {<<>>, <<"f", "_">>}
Suffixes == {<<>>, <<".", "v", "t", "k">>}
TimeLabels == {<<"5">>, <<"1", "0">>, <<"0">>}

\* the files a writer with some prefix and suffix leaves in a folder
FilePool == {p \o t \o s : p \in Prefixes, t \in TimeLabels, s \in Suffixes}

Folders == {F \in SUBSET FilePool : Cardinality(F) <= MaxFiles}

\* VTKDataloader._build_file_path
BuildFilePath(time) == Path \o <<"/">> \o prefix \o time \o suffix

StartsWith(s, head) ==
    Len(s) >= Len(head) /\ SubSeq(s, 1, Len(head)) = head

EndsWith(s, tail) ==
    Len(s) >= Len(tail) /\ SubSeq(s, Len(s) - Len(tail) + 1, Len(s)) = tail

\* glob.glob(pattern) for a pattern with one "*": the paths of the folder
\* that match, the "*" standing for any characters but "/"
Glob(pattern) ==
    LET star == CHOOSE i \in 1..Len(pattern) : pattern[i] = "*"
        head == SubSeq(pattern, 1, star - 1)
        tail == SubSeq(pattern, star + 1, Len(pattern))
    IN  {f \in {Path \o <<"/">> \o name : name \in files} :
            /\ Len(f) >= Len(head) + Len(tail)
            /\ StartsWith(f, head)
            /\ EndsWith(f, tail)
            /\ \A i \in (Len(head) + 1)..(Len(f) - Len(tail)) : f[i] # "/"}

\* f.split("/")[-1]
LastComponent(f) ==
    LET slashes == {i \in 1..Len(f) : f[i] = "/"}
        last == IF slashes = {} THEN 0
                ELSE CHOOSE i \in slashes : \A j \in slashes : j <= i
    IN  SubSeq(f, last + 1, Len(f))

\* the strings of the model that float() accepts, and their values
IsFloat(s) ==
    /\ s # <<>>
    /\ \A i \in 1..Len(s) : \E v \in 1..10 : DigitChars[v] = s[i]

Float(s) == DigitsValue(s)

\* sorted(labels, key=float): a stable insertion sort
RECURSIVE Insert(_, _)
Insert(sorted, x) ==
    IF sorted = <<>> THEN <<x>>
    ELSE IF Float(sorted[Len(sorted)]) <= Float(x) THEN Append(sorted, x)
    ELSE Append(Insert(SubSeq(sorted, 1, Len(sorted) - 1), x),
                sorted[Len(sorted)])

RECURSIVE SortedByFloat(_)
SortedByFloat(labels) ==
    IF labels = <<>> THEN <<>>
    ELSE Insert(SortedByFloat(SubSeq(labels, 1, Len(labels) - 1)),
                labels[Len(labels)])

\* the orders in which glob may list a set of paths
Listings(S) ==
    {l \in [1..Cardinality(S) -> S] :
        \A a, b \in 1..Cardinality(S) : l[a] = l[b] => a = b}

\* f.split("/")[-1][len(self._prefix):-len(self._suffix)]
Label(f) == PySlice(LastComponent(f), Len(prefix), -Len(suffix))

\* VTKDataloader(path, vtk_reader, prefix, suffix) on a folder of files
VTKInit ==
    /\ vtk_pc = "idle"
    /\ \E p \in Prefixes, s \in Suffixes, F \in Folders :
          /\ prefix' = p
          /\ suffix' = s
          /\ files' = F
    /\ write_times_cache' = None
    /\ vtk_ret' = None
    /\ vtk_pc' = "ready"
    /\ UNCHANGED hvars

\* the write_times property
WriteTimes ==
    /\ vtk_pc = "ready"
    /\ IF IsNone(write_times_cache)
       THEN \E listing \in Listings(Glob(BuildFilePath(<<"*">>))) :
               LET labels == [i \in 1..Len(listing) |-> Label(listing[i])]
               IN  IF \A i \in 1..Len(labels) : IsFloat(labels[i])
                   THEN /\ write_times_cache' = Some(SortedByFloat(labels))
                        /\ vtk_ret' = Some([ok |-> TRUE,
                                            value |-> SortedByFloat(labels)])
                   ELSE /\ write_times_cache' = write_times_cache
                        /\ vtk_ret' = Some([ok |-> FALSE,
                                            value |-> <<"ValueError">>])
       ELSE /\ vtk_ret' = Some([ok |-> TRUE, value |-> Get(write_times_cache)])
            /\ UNCHANGED write_times_cache
    /\ UNCHANGED <<vtk_pc, prefix, suffix, files, hvars>>

(***************************************************************************)
(* The specifications: one of the HODMD object, one of the data loader.    *)
(***************************************************************************)
Init ==
    /\ pc = "idle"
    /\ args = None
    /\ dm_org = <<>>
    /\ rows_org = 0
    /\ cols_org = 0
    /\ delay = 0
    /\ svd_dr = None
    /\ embedded = None
    /\ base = None
    /\ err = None
    /\ trace = <<>>
    /\ ret = None
    /\ first = None
    /\ vtk_pc = "idle"
    /\ prefix = <<>>
    /\ suffix = <<>>
    /\ files = {}
    /\ write_times_cache = None
    /\ vtk_ret = None

Next ==
    \/ Construct
    \/ Validate
    \/ Reduce
    \/ Embed
    \/ Delegate
    \/ GetSvdDr
    \/ GetDelay
    \/ GetModes
    \/ GetReconstructionError
    \/ GetProjectionError
    \/ GetTlsqError
    \/ ConstructWithSvd

Spec == Init /\ [][Next]_vars

NextVTK == VTKInit \/ WriteTimes

SpecVTK == Init /\ [][NextVTK]_vars

(***************************************************************************)
(* Properties.                                                             *)
(***************************************************************************)
Called == ~IsNone(args)
ExplicitDelay == Called /\ ~IsNone(Get(args).delay)
Validated == Called /\ pc # "validate"
Msg == Get(err).msg

\* the position of a text piece in a message
IndexOf(m, piece) == CHOOSE i \in 1..Len(m) : m[i] = piece

\* U @ B[:r], entry by entry
ZeroShiftMapped(result, B) ==
    /\ NRows(result) = rows_org
    /\ \A k \in 1..NRows(result) : Len(result[k]) = NCols(B)
    /\ \A k \in 1..rows_org : \A j \in 1..NCols(B) :
          result[k][j] =
              SumTo([l \in 1..rank |-> U_dr[k][l] * B[l][j]], rank)

\* C1: an explicitly supplied delay below 1 makes the construction fail in
\* validation with a ValueError whose message is the delay text followed by
\* the decimal form of the delay, and nothing is computed or built.
C1_NonPositiveDelayRejected ==
    (ExplicitDelay /\ Validated /\ Get(Get(args).delay) < 1) =>
        /\ pc = "failed"
        /\ ~IsNone(err)
        /\ Get(err).type = "ValueError"
        /\ Head(Msg) = DelayMsg
        /\ StrToInt(Tail(Msg)) = Get(Get(args).delay)
        /\ (Get(Get(args).delay) = 0 => Tail(Msg) = <<"0">>)
        /\ (Get(Get(args).delay) = -10 => Tail(Msg) = <<"-", "1", "0">>)
        /\ IsNone(embedded)
        /\ IsNone(base)
        /\ svd_dr = Get(args).svd_dr

C1_Witness ==
    /\ pc = "failed"
    /\ ExplicitDelay
    /\ Get(Get(args).delay) = -10

\* C2: a delay of at least 1 that leaves no snapshot (cols_org - delay < 1)
\* makes the construction fail with a ValueError whose message holds the
\* snapshot count and the delay; a construction that passes validation has
\* 1 <= delay <= cols_org - 1 and an embedded matrix of at least two columns.
C2_TooFewSnapshotsRejected ==
    /\ (Validated /\ delay >= 1 /\ cols_org - delay < 1) =>
          /\ pc = "failed"
          /\ ~IsNone(err)
          /\ Get(err).type = "ValueError"
          /\ Msg[1] = SnapshotsMsg1
          /\ Msg[Len(Msg)] = SnapshotsMsg3
          /\ \E i \in 2..(Len(Msg) - 1) :
                /\ Msg[i] = SnapshotsMsg2
                /\ StrToInt(SubSeq(Msg, 2, i - 1)) = cols_org
                /\ StrToInt(SubSeq(Msg, i + 1, Len(Msg) - 1)) = delay
          /\ IsNone(embedded)
          /\ IsNone(base)
    /\ (Validated /\ pc # "failed") =>
          /\ 1 <= delay
          /\ delay <= cols_org - 1
    /\ ~IsNone(embedded) => NCols(Get(embedded)) >= 2

C2_Witness ==
    /\ pc = "failed"
    /\ cols_org = MaxCols
    /\ delay = MaxCols

\* C3: a construction runs validate, then the SVD (only when none was
\* supplied), then the embedding, then the base DMD, each at most once and in
\* that order; a failed construction has run the validation alone.
C3_ConstructionOrder ==
    LET full == IF Called /\ ~IsNone(Get(args).svd_dr)
                THEN <<"validate", "embed", "dmd">>
                ELSE <<"validate", "svd", "embed", "dmd">>
    IN  /\ Len(trace) <= Len(full)
        /\ trace = SubSeq(full, 1, Len(trace))
        /\ pc = "failed" => trace = <<"validate">>
        /\ pc = "done" => trace = full
        /\ (Called /\ (svd_dr # Get(args).svd_dr \/ ~IsNone(embedded)
                       \/ ~IsNone(base)))
              => /\ trace # <<>>
                 /\ trace[1] = "validate"
                 /\ IsNone(validate_inputs(delay, cols_org))
        /\ ~IsNone(base) => (~IsNone(embedded) /\ ~IsNone(svd_dr))

C3_Witness ==
    /\ pc = "done"
    /\ trace = <<"validate", "svd", "embed", "dmd">>
    /\ IsNone(first)

\* C4: the embedded matrix has delay * rank_dr rows and cols_org - delay + 1
\* columns, and row i * rank_dr + k, column j of it is row k, column i + j of
\* the reduced matrix (i counted from 0, k and j from 1).
C4_EmbeddedBlocks ==
    ~IsNone(embedded) =>
        LET E == Get(embedded)
            R == MatMul(Transpose(U_dr), dm_org)
        IN  /\ NRows(R) = rank
            /\ NCols(R) = cols_org
            /\ NRows(E) = delay * rank
            /\ \A row \in 1..NRows(E) : Len(E[row]) = cols_org - delay + 1
            /\ \A i \in 0..(delay - 1) : \A k \in 1..rank :
                  \A j \in 1..(cols_org - delay + 1) :
                      E[i * rank + k][j] = R[k][i + j]

C4_Witness ==
    /\ ~IsNone(embedded)
    /\ delay = 3
    /\ rank = 2
    /\ cols_org > 4

\* C5: with the delay omitted the delay validated, embedded with and returned
\* is floor(cols_org / 3); the construction passes validation exactly when
\* cols_org >= 3, and for one or two snapshots it fails with the delay
\* message ending in "0".
C5_DefaultDelay ==
    (Called /\ IsNone(Get(args).delay)) =>
        /\ 3 * delay <= cols_org
        /\ cols_org < 3 * delay + 3
        /\ Validated => (pc = "failed" <=> cols_org < 3)
        /\ (Validated /\ cols_org \in {1, 2}) =>
              /\ ~IsNone(err)
              /\ Get(err).type = "ValueError"
              /\ Msg = <<DelayMsg, "0">>
        /\ ~IsNone(embedded) =>
              /\ 3 * NRows(Get(embedded)) <= cols_org * rank
              /\ cols_org * rank < 3 * NRows(Get(embedded)) + 3 * rank
        /\ (~IsNone(ret) /\ Get(ret)[1] = "delay") =>
              /\ 3 * Get(ret)[2] <= cols_org
              /\ cols_org < 3 * Get(ret)[2] + 3

C5_Witness ==
    /\ Called
    /\ IsNone(Get(args).delay)
    /\ pc = "failed"
    /\ cols_org = 2

C5_DefaultOfTwoReached ==
    /\ Called
    /\ IsNone(Get(args).delay)
    /\ ~IsNone(ret)
    /\ Get(ret) = <<"delay", 2>>

Returned(name) == ~IsNone(ret) /\ Get(ret)[1] = name
Value == Get(ret)[2]

\* C6: modes, projection_error and the two parts of tlsq_error are U times
\* the first rank_dr rows of the base class's quantity, with rows_org rows
\* and the columns of that quantity; its later rows do not enter.
C6_ZeroShiftBlockMapped ==
    /\ Returned("modes") => ZeroShiftMapped(Value, Get(base).modes)
    /\ Returned("projection_error") =>
          ZeroShiftMapped(Value, Get(base).projection_error)
    /\ Returned("tlsq_error") =>
          /\ Len(Value) = 2
          /\ ZeroShiftMapped(Value[1], Get(base).tlsq_error[1])
          /\ ZeroShiftMapped(Value[2], Get(base).tlsq_error[2])

C6_Witness ==
    /\ Returned("modes")
    /\ delay = 2
    /\ rank = 2
    /\ NRows(Get(base).modes) = 4
    /\ NCols(Value) >= 2

\* C7: reconstruction_error is the base class's reconstruction, formed from
\* the modes in the original row space, minus the leading columns of the
\* original data matrix, column by column; it has rows_org rows and
\* cols_org - delay + 1 <= cols_org columns.
C7_ReconstructionError ==
    Returned("reconstruction_error") =>
        LET E == Value
            M == Get(base).modes
            dyn == Get(base).dynamics
            nm == NCols(M)
            \* the modes in the original space, entry by entry
            mode(k, m) == SumTo([l \in 1..rank |-> U_dr[k][l] * M[l][m]], rank)
        IN  /\ NRows(E) = rows_org
            /\ \A k \in 1..rows_org : Len(E[k]) = cols_org - delay + 1
            /\ cols_org - delay + 1 <= cols_org
            /\ delay = 1 => NCols(E) = cols_org
            /\ \A k \in 1..rows_org : \A j \in 1..(cols_org - delay + 1) :
                  E[k][j] =
                      SumTo([m \in 1..nm |-> mode(k, m) * dyn[m][j]], nm)
                      - dm_org[k][j]

C7_Witness ==
    /\ Returned("reconstruction_error")
    /\ delay = 2
    /\ rows_org = 2
    /\ NCols(Value) = cols_org - 1

\* C8: an object constructed from the inputs of a finished one and that
\* one's factorization stores the same factorization and delay, hands the
\* same embedded matrix to the base class and has the same modes and
\* reconstruction_error; it computes no factorization, and its rank is the
\* supplied factorization's whatever rank_dr it was given.
C8_ReuseOfFactorization ==
    (pc = "done" /\ ~IsNone(first)) =>
        LET A == Get(first)
        IN  /\ Get(args).data_matrix = A.args.data_matrix
            /\ Get(args).delay = A.args.delay
            /\ Get(args).svd_dr = Some(A.svd_dr)
            /\ Get(svd_dr) = A.svd_dr
            /\ delay = A.delay
            /\ Get(embedded) = A.base.dm
            /\ Get(base).dm = A.base.dm
            /\ Modes = A.modes
            /\ ReconstructionError = A.reconstruction_error
            /\ \A i \in 1..Len(trace) : trace[i] # "svd"
            /\ rank = A.svd_dr.rank
            /\ NRows(Get(embedded)) = delay * A.svd_dr.rank

C8_Witness ==
    /\ pc = "done"
    /\ ~IsNone(first)
    /\ Get(args).rank_dr # Get(first).args.rank_dr
    /\ Get(args).rank_dr # Some(rank)
    /\ Returned("modes")

\* the plain DMD of the reduced matrix: with delay = 1 the base object itself
PlainModes == Get(base).modes
PlainReconstruction == MatMul(PlainModes, Get(base).dynamics)
PlainReconstructionError == MatSub(PlainReconstruction, Get(base).dm)

NoDelayCommon ==
    /\ Get(embedded) = MatMul(Transpose(U_dr), dm_org)
    /\ Get(base).dm = Get(embedded)
    /\ NRows(Get(embedded)) = rank
    /\ \A k \in 1..rank : Len(Get(embedded)[k]) = cols_org
    /\ Modes = MatMul(U_dr, PlainModes)
    /\ ProjectionError = MatMul(U_dr, Get(base).projection_error)
    /\ TlsqError = <<MatMul(U_dr, Get(base).tlsq_error[1]),
                     MatMul(U_dr, Get(base).tlsq_error[2])>>

\* C9 as stated: with delay = 1 the base class gets U^T @ dataMatrix, the
\* modes are U times its modes and every error, the reconstruction error
\* too, is the plain DMD's error mapped through U.
C9_NoDelayAsStated ==
    (pc = "done" /\ delay = 1) =>
        /\ NoDelayCommon
        /\ ReconstructionError = MatMul(U_dr, PlainReconstructionError)

\* C9 amended: with delay = 1 the base class gets U^T @ dataMatrix, the modes
\* are U times its modes, projection_error and tlsq_error are the plain
\* DMD's mapped through U, and reconstruction_error is the plain DMD's
\* reconstruction mapped through U minus the original data matrix.
C9_NoDelay ==
    (pc = "done" /\ delay = 1) =>
        /\ NoDelayCommon
        /\ ReconstructionError =
               MatSub(MatMul(U_dr, PlainReconstruction), dm_org)

C9_Witness ==
    /\ pc = "done"
    /\ delay = 1
    /\ rank = 1
    /\ rows_org = 2
    /\ cols_org >= 2
    /\ Returned("reconstruction_error")

\* the time label a file name holds: the name without prefix and suffix
TimeLabel(name) == SubSeq(name, Len(prefix) + 1, Len(name) - Len(suffix))

Matching ==
    {name \in files :
        /\ Len(name) >= Len(prefix) + Len(suffix)
        /\ StartsWith(name, prefix)
        /\ EndsWith(name, suffix)}

\* C10: write_times returns the time labels of the matching files, the file
\* names without prefix and suffix, in ascending numeric order, for every
\* prefix and suffix, the empty suffix included.
C10_WriteTimesLabels ==
    (~IsNone(vtk_ret) /\ \A name \in Matching : IsFloat(TimeLabel(name))) =>
        /\ Get(vtk_ret).ok
        /\ LET w == Get(vtk_ret).value
           IN  /\ Len(w) = Cardinality(Matching)
               /\ {w[i] : i \in 1..Len(w)} = {TimeLabel(n) : n \in Matching}
               /\ \A i \in 1..(Len(w) - 1) : Float(w[i]) <= Float(w[i + 1])
====
